---------------------------- MODULE Spec2Model ----------------------------
(***************************************************************************)
(* A model of the pattern execution core of src/streamlit.py: the input    *)
(* guard (validate_input_content, sanitize_input_content), the two         *)
(* executors (execute_patterns, execute_pattern_chain), the history store  *)
(* (save_output_log, save_outputs) and the process runner                  *)
(* (safe_run_command).                                                     *)
(*                                                                         *)
(* A text is a sequence of code points.  A pattern name is a string.       *)
(*                                                                         *)
(* A behaviour of Spec is one session up to and including one executor     *)
(* call: the provider, the model and the input text are set, then          *)
(* execute_patterns or execute_pattern_chain runs, one engine process per  *)
(* step.  A behaviour of SpecRunner is a series of safe_run_command calls. *)
(***************************************************************************)
EXTENDS Integers, Sequences, FiniteSets, TLC

(***************************************************************************)
(* Bounds of the model.                                                    *)
(***************************************************************************)
\* the longest pattern list handed to an executor
MaxPatterns == 3
\* the last second of the wall clock
MaxClock == 2
\* the latest time of day a model listing is asked for
MaxTime == 601
\* the most invocations of the engine's model listing
MaxListings == 3
\* the most entries of the output log
MaxLogs == 2
\* the most entries one session appends to the shared log file
MaxAppends == 2
\* the most descriptors of a pattern catalog
MaxCatalog == 3
\* the longest text handed to the input guard
MaxTextLen == 4
\* the most lines of a generated model listing
MaxListingLines == 3

(***************************************************************************)
(* Program constants.                                                      *)
(***************************************************************************)
MAX_RETRIES == 3
RETRY_DELAY == 1

\* Python's None, for a value that is otherwise a text
None == <<-1>>

\* the empty str
EmptyText == <<>>

(***************************************************************************)
(* Text helpers: what str.isspace, str.strip and str.split do.             *)
(***************************************************************************)
\* the code points str.isspace() accepts (those below U+0100)
WhitespaceChars == {9, 10, 11, 12, 13, 28, 29, 30, 31, 32, 133, 160}

IsSpaceChar(c) == c \in WhitespaceChars

\* str.isspace(): non-empty and whitespace only
IsSpace(t) == Len(t) > 0 /\ \A i \in 1..Len(t) : IsSpaceChar(t[i])

RECURSIVE LStrip(_)
LStrip(t) ==
    IF t = <<>> THEN <<>>
    ELSE IF IsSpaceChar(Head(t)) THEN LStrip(Tail(t))
    ELSE t

RECURSIVE RStrip(_)
RStrip(t) ==
    IF t = <<>> THEN <<>>
    ELSE IF IsSpaceChar(t[Len(t)]) THEN RStrip(SubSeq(t, 1, Len(t) - 1))
    ELSE t

\* str.strip()
Strip(t) == RStrip(LStrip(t))

\* " ".join(t.split()): whitespace runs become one space, the ends are trimmed
RECURSIVE JoinWords(_, _)
JoinWords(t, pendingSpace) ==
    IF t = <<>> THEN <<>>
    ELSE IF IsSpaceChar(Head(t)) THEN JoinWords(Tail(t), TRUE)
    ELSE (IF pendingSpace THEN <<32>> ELSE <<>>) \o <<Head(t)>>
             \o JoinWords(Tail(t), FALSE)

SplitJoin(t) == JoinWords(LStrip(t), FALSE)

\* Python truthiness of an Optional[str]
Truthy(t) == t # None /\ t # EmptyText

(***************************************************************************)
(* validate_input_content and sanitize_input_content                       *)
(***************************************************************************)
\* the code points of  !@#$%^&*()_+[]{}|\;:'",.<>?`~
special_chars ==
    {33, 64, 35, 36, 37, 94, 38, 42, 40, 41, 95, 43, 91, 93, 123, 125, 124,
     92, 59, 58, 39, 34, 44, 46, 60, 62, 63, 96, 126}

control_chars == (0..31) \ {9, 10, 13}

\* the number of bytes of one code point in UTF-8
Utf8Bytes(c) == IF c < 128 THEN 1 ELSE IF c < 2048 THEN 2 ELSE IF c < 65536 THEN 3 ELSE 4

RECURSIVE Utf8Len(_)
Utf8Len(t) == IF t = <<>> THEN 0 ELSE Utf8Bytes(Head(t)) + Utf8Len(Tail(t))

MaxInputBytes == 100 * 1024

special_char_count(t) == Cardinality({i \in 1..Len(t) : t[i] \in special_chars})

\* the first failing check of validate_input_content, "" when the text is valid
ValidationError(input_text) ==
    IF input_text = EmptyText \/ IsSpace(input_text)
        THEN "Input content cannot be empty."
    ELSE IF Len(Strip(input_text)) < 2
        THEN "Input content must be at least 2 characters long."
    ELSE IF Utf8Len(input_text) > MaxInputBytes
        THEN "Input content exceeds maximum size of 100KB."
    ELSE IF special_char_count(input_text) * 10 > 3 * Len(input_text)
        THEN "Input contains too many special characters."
    ELSE IF \E i \in 1..Len(input_text) : input_text[i] \in control_chars
        THEN "Input contains invalid control characters."
    ELSE ""

validate_input_content(input_text) == ValidationError(input_text) = ""

RECURSIVE RemoveNulls(_)
RemoveNulls(t) ==
    IF t = <<>> THEN <<>>
    ELSE IF Head(t) = 0 THEN RemoveNulls(Tail(t))
    ELSE <<Head(t)>> \o RemoveNulls(Tail(t))

SanitizeChar(c) == IF c \in {10, 9, 13} \/ c >= 32 THEN c ELSE 32

\* sanitize_input_content with the whitespace collapsed before, not after,
\* the control characters are replaced
sanitize_input_content_JoinFirst(input_text) ==
    LET text == SplitJoin(RemoveNulls(input_text))
    IN  [i \in 1..Len(text) |-> SanitizeChar(text[i])]

sanitize_input_content(input_text) ==
    LET text == RemoveNulls(input_text)
        replaced == [i \in 1..Len(text) |-> SanitizeChar(text[i])]
    IN  SplitJoin(replaced)

(***************************************************************************)
(* The state.                                                              *)
(***************************************************************************)
VARIABLES
    config,                 \* st.session_state.config: vendor and model
    input_content,          \* st.session_state.input_content
    output_logs,            \* st.session_state.output_logs
    starred_outputs,        \* st.session_state.starred_outputs
    output_logs_file,       \* the content of output_logs.json
    starred_outputs_file,   \* the content of starred_outputs.json
    clock,                  \* the wall clock, in seconds
    pc,                     \* where the session is: idle, in an executor, done
    frame,                  \* the locals of the running executor
    returned,               \* what the last executor call returned
    engine_calls,           \* history: the engine processes the call started
    logs_at_call,           \* history: output_logs when the call started
    run,                    \* the locals and the history of safe_run_command
    cached_models,          \* st.session_state.cached_models
    last_model_fetch,       \* st.session_state.last_model_fetch
    fetchers,               \* the locals of each running fetch_models_once call
    listings,               \* history: the "fabric --listmodels" runner calls
    writers,                \* the sessions that share the two history files
    calc,                   \* a function under test: its argument and its result
    pattern_path,           \* the directory of one pattern name under pattern_dir
    creators                \* the locals of each running create_pattern call

sessionVars == <<config, input_content, output_logs, starred_outputs,
                 output_logs_file, starred_outputs_file, clock>>
execVars == <<pc, frame, returned, engine_calls, logs_at_call>>
vars == <<config, input_content, output_logs, starred_outputs,
          output_logs_file, starred_outputs_file, clock,
          pc, frame, returned, engine_calls, logs_at_call, run,
          cached_models, last_model_fetch, fetchers, listings, writers, calc,
          pattern_path, creators>>
cacheVars == <<cached_models, last_model_fetch, fetchers, listings>>
patternVars == <<pattern_path, creators>>
\* what the executors and the process runner leave alone
restVars == <<cached_models, last_model_fetch, fetchers, listings, writers, calc,
              pattern_path, creators>>

(***************************************************************************)
(* The inputs the model draws.                                             *)
(***************************************************************************)
\* pattern names, in catalog order
PatternNames == <<"A", "B", "C", "D", "E">>

\* the pattern lists handed to an executor: the first n names, or two swapped
PatternLists ==
    {SubSeq(PatternNames, 1, n) : n \in 0..MaxPatterns} \cup {<<"B", "A">>}

\* the texts typed into the input area: "", "ab", "a  b", "a<SOH>b"
SessionInputs == {EmptyText, <<97, 98>>, <<97, 32, 32, 98>>, <<97, 1, 98>>}

\* the initial_input arguments: None, "c<TAB>d", "!!"
InitialInputs == {None, <<99, 9, 100>>, <<33, 33>>}

\* what the engine prints for a pattern when it prints something: "<name>\n"
PatternText(pattern) ==
    CASE pattern = "A" -> <<65, 10>>
      [] pattern = "B" -> <<66, 10>>
      [] pattern = "C" -> <<67, 10>>
      [] pattern = "D" -> <<68, 10>>
      [] OTHER -> <<69, 10>>

\* what the engine wrote to stderr, and the text of an exception
EngineStderr == <<101, 114, 114, 10>>

\* One engine process: it exits 0 with some stdout ("ok"), exits non-zero
\* ("nonzero": CalledProcessError), or cannot be run ("exception").  retry_ok
\* says whether a second run of the same command would have exited 0.
EngineOutcomes(pattern) ==
    [kind : {"ok"}, stdout : {PatternText(pattern), <<10>>}, retry_ok : {FALSE}]
    \cup [kind : {"nonzero"}, stdout : {EmptyText}, retry_ok : BOOLEAN]
    \cup [kind : {"exception"}, stdout : {EmptyText}, retry_ok : {FALSE}]

\* how a save_outputs call ends: both files written, the first open refused,
\* the second open refused
IoOutcomes == {"ok", "logs_denied", "starred_denied"}

\* a log entry of an earlier session
PriorEntry ==
    [timestamp |-> 0, pattern_name |-> "E", input |-> <<97, 98>>,
     output |-> <<69>>, is_starred |-> FALSE, custom_name |-> EmptyText]

(***************************************************************************)
(* History store: save_output_log and save_outputs                         *)
(***************************************************************************)
\* the two files after save_outputs wrote logs and starred, ending as io says
SavedLogsFile(logs, io) == IF io = "logs_denied" THEN output_logs_file ELSE logs

\* save_outputs that leaves the starred file as it is
SavedStarredFileNever(starred, io) == starred_outputs_file

SavedStarredFile(starred, io) ==
    IF io = "ok" THEN starred ELSE starred_outputs_file

\* LogEntry with the output stored as the input too
LogEntryOutputTwice(pattern_name, input, output, timestamp) ==
    [timestamp |-> timestamp, pattern_name |-> pattern_name, input |-> output,
     output |-> output, is_starred |-> FALSE, custom_name |-> EmptyText]

LogEntry(pattern_name, input, output, timestamp) ==
    [timestamp |-> timestamp, pattern_name |-> pattern_name, input |-> input,
     output |-> output, is_starred |-> FALSE, custom_name |-> EmptyText]

\* save_output_log: append the entry, then save_outputs
save_output_log(pattern_name, input, output, timestamp, io) ==
    /\ output_logs' = Append(output_logs, LogEntry(pattern_name, input, output, timestamp))
    /\ output_logs_file' = SavedLogsFile(output_logs', io)
    /\ starred_outputs_file' = SavedStarredFile(starred_outputs, io)
    /\ UNCHANGED starred_outputs


(***************************************************************************)
(* Values of the executors                                                 *)
(***************************************************************************)
\* not x, for a configuration value ("None" stands for Python's None)
Falsy(x) == x \in {"", "None"}

NoFrame ==
    [fn |-> "none", patterns |-> <<>>, chain_mode |-> FALSE, initial_input |-> None,
     i |-> 1, current_input |-> EmptyText, timestamp |-> 0,
     all_outputs |-> <<>>, stages |-> <<>>]

NoChainResults ==
    [sequence |-> <<>>, stages |-> <<>>, final_output |-> None,
     metadata |-> [timestamp |-> 0, success |-> FALSE]]

NoReturn == [fn |-> "none", all_outputs |-> <<>>, chain_results |-> NoChainResults]

\* one element of all_outputs: the header, a pattern's output, the no-output
\* warning or an error
OutputRecord(kind, pattern, text) == [kind |-> kind, pattern |-> pattern, text |-> text]

\* "Pattern generated no output"
NoOutputError ==
    <<80, 97, 116, 116, 101, 114, 110, 32, 103, 101, 110, 101, 114, 97, 116, 101,
      100, 32, 110, 111, 32, 111, 117, 116, 112, 117, 116>>

\* "Error executing pattern: "
ErrorExecutingPrefix ==
    <<69, 114, 114, 111, 114, 32, 101, 120, 101, 99, 117, 116, 105, 110, 103, 32,
      112, 97, 116, 116, 101, 114, 110, 58, 32>>

\* "Unexpected error: "
UnexpectedErrorPrefix ==
    <<85, 110, 101, 120, 112, 101, 99, 116, 101, 100, 32, 101, 114, 114, 111,
      114, 58, 32>>

\* the record of one engine process in the history
EngineCall(pattern, input, outcome) ==
    [pattern |-> pattern, input |-> input, outcome |-> outcome]

(***************************************************************************)
(* execute_patterns                                                        *)
(***************************************************************************)
\* current_input = initial_input or st.session_state.input_content
SelectedInput(initial_input, session_input) ==
    IF Truthy(initial_input) THEN initial_input ELSE session_input

\* PreconditionError without the validate_input_content check
PreconditionErrorConfigOnly(cfg, current_input) ==
    IF Falsy(cfg.vendor) \/ Falsy(cfg.model) THEN "config" ELSE ""

\* the precondition that fails: "config", "validation", or "" when none does
PreconditionError(cfg, current_input) ==
    IF Falsy(cfg.vendor) \/ Falsy(cfg.model) THEN "config"
    ELSE IF ~validate_input_content(current_input) THEN "validation"
    ELSE ""

\* Message that is the text of the input area in both modes
MessageSessionInput(chain_mode, current_input, session_input) == session_input

\* message = current_input if chain_mode else st.session_state.input_content
Message(chain_mode, current_input, session_input) ==
    IF chain_mode THEN current_input ELSE session_input

\* HaltsOnHardFailure with the break dropped
HaltsOnHardFailureNever(chain_mode) == FALSE

\* HaltsOnHardFailure with an unconditional break
HaltsOnHardFailureAlways(chain_mode) == TRUE

\* HaltsOnEmptyOutput with the break of the except clauses
HaltsOnEmptyOutputInChain(chain_mode) == chain_mode

\* the three except clauses of the loop: if chain_mode: break
HaltsOnHardFailure(chain_mode) == chain_mode

\* the else branch of "if pattern_output": no break
HaltsOnEmptyOutput(chain_mode) == FALSE

PatternsReturn(all_outputs) ==
    [fn |-> "execute_patterns", all_outputs |-> all_outputs,
     chain_results |-> NoChainResults]

ExecutePatternsCall(patterns_to_run, chain_mode, initial_input) ==
    /\ pc = "idle"
    /\ LET current_input == SelectedInput(initial_input, input_content)
           err == PreconditionError(config, current_input)
           locals == [fn |-> "execute_patterns", patterns |-> patterns_to_run,
                      chain_mode |-> chain_mode, initial_input |-> initial_input,
                      i |-> 1, current_input |-> current_input,
                      timestamp |-> clock, all_outputs |-> <<>>, stages |-> <<>>]
       IN  IF err # ""
           THEN /\ pc' = "done"
                /\ frame' = locals
                /\ returned' = PatternsReturn(<<>>)
           ELSE /\ pc' = "execute_patterns"
                /\ frame' = [locals EXCEPT
                       !.current_input = sanitize_input_content(current_input),
                       !.all_outputs = <<OutputRecord("info", "", EmptyText)>>]
                /\ returned' = NoReturn
    /\ engine_calls' = <<>>
    /\ logs_at_call' = output_logs
    /\ UNCHANGED <<sessionVars, run, restVars>>

\* one iteration of "for pattern in patterns_to_run"
ExecutePatternsStage ==
    /\ pc = "execute_patterns"
    /\ frame.i <= Len(frame.patterns)
    /\ LET pattern == frame.patterns[frame.i]
           message == Message(frame.chain_mode, frame.current_input, input_content)
       IN  \E outcome \in EngineOutcomes(pattern), io \in IoOutcomes :
             LET pattern_output == Strip(outcome.stdout)
                 halt == IF outcome.kind = "ok"
                         THEN pattern_output = EmptyText /\ HaltsOnEmptyOutput(frame.chain_mode)
                         ELSE HaltsOnHardFailure(frame.chain_mode)
                 record == IF outcome.kind = "ok"
                           THEN IF pattern_output # EmptyText
                                THEN OutputRecord("output", pattern, pattern_output)
                                ELSE OutputRecord("warning", pattern, EmptyText)
                           ELSE OutputRecord("error", pattern, Strip(EngineStderr))
                 all_outputs == Append(frame.all_outputs, record)
             IN  /\ engine_calls' = Append(engine_calls, EngineCall(pattern, message, outcome))
                 /\ IF outcome.kind = "ok" /\ pattern_output # EmptyText
                    THEN /\ save_output_log(pattern, message, pattern_output, frame.timestamp, io)
                         /\ frame' = [frame EXCEPT
                                !.all_outputs = all_outputs,
                                !.current_input = IF frame.chain_mode THEN pattern_output ELSE @,
                                !.i = @ + 1]
                    ELSE /\ io = "ok"
                         /\ frame' = [frame EXCEPT !.all_outputs = all_outputs, !.i = @ + 1]
                         /\ UNCHANGED <<output_logs, starred_outputs,
                                        output_logs_file, starred_outputs_file>>
                 /\ IF halt
                    THEN pc' = "done" /\ returned' = PatternsReturn(all_outputs)
                    ELSE UNCHANGED <<pc, returned>>
    /\ UNCHANGED <<config, input_content, clock, logs_at_call, run, restVars>>

\* the loop is over: return all_outputs
ExecutePatternsReturn ==
    /\ pc = "execute_patterns"
    /\ frame.i > Len(frame.patterns)
    /\ pc' = "done"
    /\ returned' = PatternsReturn(frame.all_outputs)
    /\ UNCHANGED <<sessionVars, frame, engine_calls, logs_at_call, run, restVars>>


(***************************************************************************)
(* execute_pattern_chain                                                   *)
(***************************************************************************)
\* the initial_input arguments of a chain: "c<TAB>d", "ab", "!!", ""
ChainInputs == {<<99, 9, 100>>, <<97, 98>>, <<33, 33>>, EmptyText}

StageResult(pattern, input, output, success, error) ==
    [pattern |-> pattern, input |-> input, output |-> output,
     success |-> success, error |-> error]

\* stage_result after the try block, for what the engine process did
StageOutcome(pattern, current_input, outcome) ==
    LET output == Strip(outcome.stdout)
    IN  IF outcome.kind = "ok"
        THEN IF output # EmptyText
             THEN StageResult(pattern, current_input, output, TRUE, None)
             ELSE StageResult(pattern, current_input, None, FALSE, NoOutputError)
        ELSE IF outcome.kind = "nonzero"
        THEN StageResult(pattern, current_input, None, FALSE,
                         ErrorExecutingPrefix \o Strip(EngineStderr))
        ELSE StageResult(pattern, current_input, None, FALSE,
                         UnexpectedErrorPrefix \o EngineStderr)

\* the two except clauses break before chain_results["stages"].append
StagesAfterHardFailure(stages, stage_result) == stages

\* FinishChain taking successful_stages[0] for successful_stages[-1]
FinishChainFirstSuccess(sequence, stages, timestamp) ==
    LET successful_stages == SelectSeq(stages, LAMBDA s : s.success)
    IN  [sequence |-> sequence,
         stages |-> stages,
         final_output |-> IF successful_stages # <<>>
                          THEN successful_stages[1].output
                          ELSE None,
         metadata |-> [timestamp |-> timestamp,
                       success |-> successful_stages # <<>>]]

\* the lines after the loop: final_output and metadata.success
FinishChain(sequence, stages, timestamp) ==
    LET successful_stages == SelectSeq(stages, LAMBDA s : s.success)
    IN  [sequence |-> sequence,
         stages |-> stages,
         final_output |-> IF successful_stages # <<>>
                          THEN successful_stages[Len(successful_stages)].output
                          ELSE None,
         metadata |-> [timestamp |-> timestamp,
                       success |-> successful_stages # <<>>]]

ChainReturn(chain_results) ==
    [fn |-> "execute_pattern_chain", all_outputs |-> <<>>,
     chain_results |-> chain_results]

ExecutePatternChainCall(patterns_sequence, initial_input) ==
    /\ pc = "idle"
    /\ pc' = "execute_pattern_chain"
    /\ frame' = [fn |-> "execute_pattern_chain", patterns |-> patterns_sequence,
                 chain_mode |-> TRUE, initial_input |-> initial_input,
                 i |-> 1, current_input |-> initial_input,
                 timestamp |-> clock, all_outputs |-> <<>>, stages |-> <<>>]
    /\ returned' = NoReturn
    /\ engine_calls' = <<>>
    /\ logs_at_call' = output_logs
    /\ UNCHANGED <<sessionVars, run, restVars>>

\* one iteration of "for i, pattern in enumerate(patterns_sequence, 1)"
ExecutePatternChainStage ==
    /\ pc = "execute_pattern_chain"
    /\ frame.i <= Len(frame.patterns)
    /\ LET pattern == frame.patterns[frame.i]
       IN  \E outcome \in EngineOutcomes(pattern), io \in IoOutcomes :
             LET stage_result == StageOutcome(pattern, frame.current_input, outcome)
             IN  /\ engine_calls' =
                        Append(engine_calls, EngineCall(pattern, frame.current_input, outcome))
                 /\ IF outcome.kind = "ok"
                    THEN /\ frame' = [frame EXCEPT
                                !.stages = Append(@, stage_result),
                                !.current_input = IF stage_result.success
                                                  THEN stage_result.output ELSE @,
                                !.i = @ + 1]
                         /\ save_output_log(pattern, stage_result.input,
                                IF Truthy(stage_result.output)
                                THEN stage_result.output ELSE stage_result.error,
                                frame.timestamp, io)
                         /\ UNCHANGED <<pc, returned>>
                    ELSE /\ io = "ok"
                         /\ frame' = [frame EXCEPT
                                !.stages = StagesAfterHardFailure(@, stage_result),
                                !.i = @ + 1]
                         /\ pc' = "done"
                         /\ returned' = ChainReturn(
                                FinishChain(frame.patterns, frame'.stages, frame.timestamp))
                         /\ UNCHANGED <<output_logs, starred_outputs,
                                        output_logs_file, starred_outputs_file>>
    /\ UNCHANGED <<config, input_content, clock, logs_at_call, run, restVars>>

\* the loop is over: fill in final_output and metadata, return chain_results
ExecutePatternChainReturn ==
    /\ pc = "execute_pattern_chain"
    /\ frame.i > Len(frame.patterns)
    /\ pc' = "done"
    /\ returned' = ChainReturn(FinishChain(frame.patterns, frame.stages, frame.timestamp))
    /\ UNCHANGED <<sessionVars, frame, engine_calls, logs_at_call, run, restVars>>

(***************************************************************************)
(* The session around the executors                                        *)
(***************************************************************************)
\* st.session_state.input_content = st.text_area(...)
EnterInputText(text) ==
    /\ pc = "idle"
    /\ input_content' = text
    /\ UNCHANGED <<config, output_logs, starred_outputs, output_logs_file,
                   starred_outputs_file, clock, execVars, run, restVars>>

\* update_provider_selection: a changed provider resets the model
update_provider_selection(new_provider) ==
    /\ pc = "idle"
    /\ new_provider # config.vendor
    /\ config' = [vendor |-> new_provider, model |-> "None"]
    /\ UNCHANGED <<input_content, output_logs, starred_outputs, output_logs_file,
                   starred_outputs_file, clock, execVars, run, restVars>>

\* load_models_and_providers: the model select box sets config["model"]
SelectModel(selected_model) ==
    /\ pc = "idle"
    /\ ~Falsy(config.vendor)
    /\ selected_model # config.model
    /\ config' = [config EXCEPT !.model = selected_model]
    /\ UNCHANGED <<input_content, output_logs, starred_outputs, output_logs_file,
                   starred_outputs_file, clock, execVars, run, restVars>>

\* a second passes
Tick ==
    /\ clock < MaxClock
    /\ clock' = clock + 1
    /\ UNCHANGED <<config, input_content, output_logs, starred_outputs,
                   output_logs_file, starred_outputs_file, execVars, run, restVars>>

(***************************************************************************)
(* safe_run_command                                                        *)
(***************************************************************************)
\* "Max retries exceeded"
MaxRetriesExceeded ==
    <<77, 97, 120, 32, 114, 101, 116, 114, 105, 101, 115, 32, 101, 120, 99, 101,
      101, 100, 101, 100>>

\* One process started by safe_run_command: exit status 0 with a stdout,
\* a non-zero exit status with a stderr, or an exception with its text.
CommandOutcomes ==
    [kind : {"ok"}, text : {EmptyText, <<120>>, <<120, 10, 121>>}]
    \cup [kind : {"nonzero", "exception"}, text : {EngineStderr, <<102>>}]

RunResult(success, stdout, stderr) ==
    [success |-> success, stdout |-> stdout, stderr |-> stderr]

NoRun ==
    [pc |-> "idle", retry |-> TRUE, attempt |-> 0, attempts |-> <<>>, waited |-> 0,
     result |-> RunResult(FALSE, EmptyText, EmptyText)]

\* range(MAX_RETRIES if retry else 1)
AttemptLimit(retry) == IF retry THEN MAX_RETRIES ELSE 1

\* IsLastAttempt with "or retry" for "or not retry"
IsLastAttemptOrRetry(attempt, retry) == attempt = MAX_RETRIES - 1 \/ retry

\* IsLastAttempt without "or not retry"
IsLastAttemptRetryOnly(attempt, retry) == attempt = MAX_RETRIES - 1

\* attempt == MAX_RETRIES - 1 or not retry
IsLastAttempt(attempt, retry) == attempt = MAX_RETRIES - 1 \/ ~retry

SafeRunCommandCall(retry) ==
    /\ run.pc # "loop"
    /\ run' = [NoRun EXCEPT !.pc = "loop", !.retry = retry]
    /\ UNCHANGED <<sessionVars, execVars, restVars>>

\* one iteration of "for attempt in range(...)", or the lines after the loop
SafeRunCommandAttempt ==
    /\ run.pc = "loop"
    /\ \E outcome \in CommandOutcomes :
         run' =
           IF run.attempt >= AttemptLimit(run.retry)
           THEN [run EXCEPT !.pc = "done",
                            !.result = RunResult(FALSE, EmptyText, MaxRetriesExceeded)]
           ELSE IF outcome.kind = "ok"
           THEN [run EXCEPT !.pc = "done",
                            !.attempts = Append(@, outcome),
                            !.result = RunResult(TRUE, outcome.text, EmptyText)]
           ELSE IF IsLastAttempt(run.attempt, run.retry)
           THEN [run EXCEPT !.pc = "done",
                            !.attempts = Append(@, outcome),
                            !.result = RunResult(FALSE, EmptyText, outcome.text)]
           ELSE [run EXCEPT !.attempts = Append(@, outcome),
                            !.waited = @ + RETRY_DELAY,
                            !.attempt = @ + 1]
    /\ UNCHANGED <<sessionVars, execVars, restVars>>

(***************************************************************************)
(* The other components at the start of a session                          *)
(***************************************************************************)
\* cached_models: None, or a catalog (a dict, possibly empty)
NoCachedModels == [is_none |-> TRUE, providers |-> <<>>]

\* the callers of fetch_models_once, and a caller that is not in a call
Callers == {1, 2}

\* current_time, the outcome of the freshness test, the session's cache as the
\* call found it, the listings made before it, and what it returns
IdleFetcher ==
    [pc |-> "idle", current_time |-> 0, hit |-> FALSE,
     cached_at_call |-> NoCachedModels, last_at_call |-> 0, listed |-> 0,
     failed |-> FALSE, providers |-> <<>>]

\* the sessions that write the history files, and a session not yet loaded
Writers == {1, 2}

NoWriter ==
    [loaded |-> FALSE, output_logs |-> <<>>, starred_outputs |-> <<>>,
     appended |-> <<>>]

NoCalc == [fn |-> "none", arg |-> <<>>, result |-> <<>>, done |-> FALSE]

\* os.path.join(pattern_dir, pattern_name) for the one pattern name the model
\* follows: whether the directory is there, the call whose os.makedirs made
\* it, and the call that wrote its system.md (0: there is no such file)
NoDirectory == [exists |-> FALSE, made_by |-> 0, system_md |-> 0]

\* the callers of create_pattern, and a caller that is not in a call: where
\* the call is, its arguments (the name, and whether there is content),
\* whether the path was there when the call tested for it, and the first
\* element of what it returned
Creators == {1, 2}

IdleCreator ==
    [pc |-> "idle", pattern_name |-> "", content |-> FALSE, existed |-> FALSE,
     returned |-> "none"]

\* the session after initialize_session_state: the defaults, and the logs of
\* an earlier session as load_saved_outputs read them
Init ==
    /\ config = [vendor |-> "", model |-> ""]
    /\ input_content = EmptyText
    /\ output_logs \in {<<>>, <<PriorEntry>>}
    /\ output_logs_file = output_logs
    /\ starred_outputs = <<>>
    /\ starred_outputs_file = <<>>
    /\ clock = 1
    /\ pc = "idle"
    /\ frame = NoFrame
    /\ returned = NoReturn
    /\ engine_calls = <<>>
    /\ logs_at_call = <<>>
    /\ run = NoRun
    /\ cached_models = NoCachedModels
    /\ last_model_fetch = 0
    /\ fetchers = [c \in Callers |-> IdleFetcher]
    /\ listings = <<>>
    /\ writers = [w \in Writers |-> NoWriter]
    /\ pattern_path = NoDirectory
    /\ creators = [c \in Creators |-> IdleCreator]
    /\ calc = NoCalc

Next ==
    \/ \E text \in SessionInputs : EnterInputText(text)
    \/ update_provider_selection("OpenAI")
    \/ SelectModel("gpt-4")
    \/ Tick
    \/ \E patterns_to_run \in PatternLists, chain_mode \in BOOLEAN,
          initial_input \in InitialInputs :
            ExecutePatternsCall(patterns_to_run, chain_mode, initial_input)
    \/ ExecutePatternsStage
    \/ ExecutePatternsReturn
    \/ \E patterns_sequence \in PatternLists, initial_input \in ChainInputs :
            ExecutePatternChainCall(patterns_sequence, initial_input)
    \/ ExecutePatternChainStage
    \/ ExecutePatternChainReturn

Spec == Init /\ [][Next]_vars


\* the process runner alone: calls with and without retry
NextRunner ==
    \/ \E retry \in BOOLEAN : SafeRunCommandCall(retry)
    \/ SafeRunCommandAttempt

SpecRunner == Init /\ [][NextRunner]_vars


(***************************************************************************)
(* parse_models_output                                                     *)
(***************************************************************************)
\* the position of the first c in t, 0 when there is none
RECURSIVE IndexOf(_, _)
IndexOf(t, c) ==
    IF t = <<>> THEN 0
    ELSE IF Head(t) = c THEN 1
    ELSE LET k == IndexOf(Tail(t), c) IN IF k = 0 THEN 0 ELSE k + 1

\* output.split("\n")
RECURSIVE SplitLines(_)
SplitLines(t) ==
    LET k == IndexOf(t, 10)
    IN  IF k = 0 THEN <<t>>
        ELSE <<SubSeq(t, 1, k - 1)>> \o SplitLines(SubSeq(t, k + 1, Len(t)))

\* line.startswith(c)
StartsWith(line, c) == line # <<>> /\ Head(line) = c

\* "Available models:"
AvailableModelsHeader == <<65, 118, 97, 105, 108, 97, 98, 108, 101, 32, 109, 111, 100, 101
     , 108, 115, 58>>

\* a catalog is a dict in insertion order: a sequence of providers, each
\* with its list of models
HasProvider(providers, name) == \E i \in 1..Len(providers) : providers[i].provider = name

\* providers[name] = []
SetProvider(providers, name) ==
    IF HasProvider(providers, name)
    THEN [i \in 1..Len(providers) |->
            IF providers[i].provider = name
            THEN [provider |-> name, models |-> <<>>] ELSE providers[i]]
    ELSE Append(providers, [provider |-> name, models |-> <<>>])

\* providers[name].append(model)
AppendModel(providers, name, model) ==
    [i \in 1..Len(providers) |->
        IF providers[i].provider = name
        THEN [providers[i] EXCEPT !.models = Append(@, model)] ELSE providers[i]]

\* a model line without its bracketed prefix: model.split("]", 1)[1].strip()
ModelName(line) ==
    IF IndexOf(line, 91) # 0 /\ IndexOf(line, 93) # 0
    THEN Strip(SubSeq(line, IndexOf(line, 93) + 1, Len(line)))
    ELSE line

\* the loop over the lines; current_provider is None before the first provider
RECURSIVE ParseLines(_, _, _)
ParseLines(lines, providers, current_provider) ==
    IF lines = <<>> THEN providers
    ELSE LET line == Strip(Head(lines))
             rest == Tail(lines)
         IN  IF line = <<>> \/ line = AvailableModelsHeader
                 THEN ParseLines(rest, providers, current_provider)
             ELSE IF ~StartsWith(line, 9) /\ ~StartsWith(line, 91)
                 THEN ParseLines(rest, SetProvider(providers, line), line)
             ELSE IF Truthy(current_provider)
                 THEN ParseLines(rest,
                          AppendModel(providers, current_provider, ModelName(Strip(line))),
                          current_provider)
             ELSE ParseLines(rest, providers, current_provider)

parse_models_output(output) == ParseLines(SplitLines(output), <<>>, None)

\* a catalog as the dict it is: the set of its items
AsDict(providers) ==
    {<<providers[i].provider, providers[i].models>> : i \in 1..Len(providers)}

\* the lines the listings are made of
OpenAI == <<79, 112, 101, 110, 65, 73>>
Anthropic == <<65, 110, 116, 104, 114, 111, 112, 105, 99>>
Gpt4 == <<103, 112, 116, 45, 52>>
Gpt35 == <<103, 112, 116, 45, 51, 46, 53>>
Claude3 == <<99, 108, 97, 117, 100, 101, 45, 51>>

ListingLines ==
    {AvailableModelsHeader, OpenAI, Anthropic, <<>>,
     <<91, 49, 93, 32>> \o Gpt4, <<91, 50, 93, 32>> \o Gpt35,
     <<9>> \o Claude3, <<32, 32>> \o Claude3, <<91>> \o Gpt4}

\* the lines joined with "\n"
RECURSIVE JoinLines(_)
JoinLines(lines) ==
    IF lines = <<>> THEN <<>>
    ELSE IF Len(lines) = 1 THEN Head(lines)
    ELSE Head(lines) \o <<10>> \o JoinLines(Tail(lines))

\* the listing of the specification's example
ExampleListing ==
    JoinLines(<<AvailableModelsHeader, OpenAI, <<91, 49, 93, 32>> \o Gpt4,
                <<91, 50, 93, 32>> \o Gpt35, Anthropic, <<9>> \o Claude3>>)

\* the listings handed to parse_models_output
Listings ==
    {ExampleListing} \cup
    {JoinLines(lines) : lines \in UNION {[1..n -> ListingLines] : n \in 1..MaxListingLines}}

\* the function under test is applied to its argument
Apply(fn, result) ==
    /\ calc.fn = fn
    /\ ~calc.done
    /\ calc' = [calc EXCEPT !.result = result, !.done = TRUE]
    /\ UNCHANGED <<sessionVars, execVars, run, cacheVars, writers, patternVars>>

InitCalc(fn, args) ==
    /\ config = [vendor |-> "", model |-> ""]
    /\ input_content = EmptyText
    /\ output_logs = <<>>
    /\ output_logs_file = <<>>
    /\ starred_outputs = <<>>
    /\ starred_outputs_file = <<>>
    /\ clock = 1
    /\ pc = "idle"
    /\ frame = NoFrame
    /\ returned = NoReturn
    /\ engine_calls = <<>>
    /\ logs_at_call = <<>>
    /\ run = NoRun
    /\ cached_models = NoCachedModels
    /\ last_model_fetch = 0
    /\ fetchers = [c \in Callers |-> IdleFetcher]
    /\ listings = <<>>
    /\ writers = [w \in Writers |-> NoWriter]
    /\ pattern_path = NoDirectory
    /\ creators = [c \in Creators |-> IdleCreator]
    /\ calc \in {[fn |-> fn, arg |-> a, result |-> <<>>, done |-> FALSE] : a \in args}

ParseModelsOutput == Apply("parse_models_output", parse_models_output(calc.arg))

SpecParse ==
    InitCalc("parse_models_output", Listings) /\ [][ParseModelsOutput]_vars

(***************************************************************************)
(* fetch_models_once                                                       *)
(***************************************************************************)
cache_timeout == 300

\* the freshness test with "<=" for "<"
CacheIsFreshInclusive(current_time) ==
    /\ ~cached_models.is_none
    /\ current_time - last_model_fetch <= cache_timeout

\* cached_models is not None and current_time - last_model_fetch < cache_timeout
CacheIsFresh(current_time) ==
    /\ ~cached_models.is_none
    /\ current_time - last_model_fetch < cache_timeout

\* what safe_run_command(["fabric", "--listmodels"]) returns: a listing of
\* two providers, of one, of none (the header alone), or a failure
ListingResults ==
    {RunResult(TRUE, stdout, EmptyText) :
        stdout \in {ExampleListing, JoinLines(<<OpenAI, <<91, 49, 93, 32>> \o Gpt4>>),
                    AvailableModelsHeader}}
    \cup {RunResult(FALSE, EmptyText, EngineStderr)}

\* the session's cache after a listing that stores whatever the runner returned
StoredAlways(result, current_time) ==
    [cached_models |-> [is_none |-> FALSE,
                        providers |-> parse_models_output(result.stdout)],
     last_model_fetch |-> current_time]

\* the session's cache after a listing, an empty catalog not being stored
StoredUnlessEmpty(result, current_time) ==
    IF ~result.success \/ parse_models_output(result.stdout) = <<>>
    THEN [cached_models |-> cached_models, last_model_fetch |-> last_model_fetch]
    ELSE [cached_models |-> [is_none |-> FALSE,
                             providers |-> parse_models_output(result.stdout)],
          last_model_fetch |-> current_time]

\* the session's cache after a listing: untouched by a failure
Stored(result, current_time) ==
    IF ~result.success
    THEN [cached_models |-> cached_models, last_model_fetch |-> last_model_fetch]
    ELSE [cached_models |-> [is_none |-> FALSE,
                             providers |-> parse_models_output(result.stdout)],
          last_model_fetch |-> current_time]

\* the seconds that pass between two steps
Delays == {149, 150, 151}

AdvanceTime(delay) ==
    /\ clock + delay <= MaxTime
    /\ clock' = clock + delay
    /\ UNCHANGED <<config, input_content, output_logs, starred_outputs,
                   output_logs_file, starred_outputs_file, execVars, run, restVars>>

\* lines 166-178: the freshness test, and on a miss the start of the listing
FetchModelsCall(c) ==
    /\ fetchers[c].pc = "idle"
    /\ Len(listings) < MaxListings
    /\ LET current_time == clock
           hit == CacheIsFresh(current_time)
       IN  /\ fetchers' = [fetchers EXCEPT ![c] =
                 [pc |-> IF hit THEN "done" ELSE "running",
                  current_time |-> current_time,
                  hit |-> hit,
                  cached_at_call |-> cached_models,
                  last_at_call |-> last_model_fetch,
                  listed |-> Len(listings),
                  failed |-> FALSE,
                  providers |-> IF hit THEN cached_models.providers ELSE <<>>]]
           /\ listings' = IF hit THEN listings
                          ELSE Append(listings, [caller |-> c, at |-> current_time,
                                                 state |-> "running"])
    /\ UNCHANGED <<sessionVars, execVars, run, cached_models, last_model_fetch,
                   writers, calc, patternVars>>

\* the listing of caller c that is under way
Invocation(c) ==
    CHOOSE i \in DOMAIN listings :
        listings[i].caller = c /\ listings[i].state = "running"

\* lines 178-188: the runner returns
FetchModelsFinish(c) ==
    /\ fetchers[c].pc = "running"
    /\ \E result \in ListingResults :
         LET stored == Stored(result, fetchers[c].current_time)
         IN  /\ cached_models' = stored.cached_models
             /\ last_model_fetch' = stored.last_model_fetch
             /\ fetchers' = [fetchers EXCEPT ![c] =
                   [@ EXCEPT !.pc = "done",
                             !.failed = ~result.success,
                             !.providers = IF result.success
                                           THEN parse_models_output(result.stdout)
                                           ELSE <<>>]]
             /\ listings' = [listings EXCEPT ![Invocation(c)].state =
                                IF result.success THEN "ok" ELSE "failed"]
    /\ UNCHANGED <<sessionVars, execVars, run, writers, calc, patternVars>>

\* the caller takes the catalog
FetchModelsReturn(c) ==
    /\ fetchers[c].pc = "done"
    /\ fetchers' = [fetchers EXCEPT ![c] = IdleFetcher]
    /\ UNCHANGED <<sessionVars, execVars, run, cached_models, last_model_fetch,
                   listings, writers, calc, patternVars>>

\* one script thread calls fetch_models_once again and again
NextCache ==
    \/ \E delay \in Delays : AdvanceTime(delay)
    \/ FetchModelsCall(1)
    \/ FetchModelsFinish(1)
    \/ FetchModelsReturn(1)

SpecCache == Init /\ [][NextCache]_vars

\* two threads call fetch_models_once on the same session state, with the
\* cache empty or, a whole cache_timeout later, stale
NextCacheConcurrent ==
    \/ AdvanceTime(cache_timeout)
    \/ \E c \in Callers : FetchModelsCall(c)
    \/ \E c \in Callers : FetchModelsFinish(c)
    \/ \E c \in Callers : FetchModelsReturn(c)

SpecCacheConcurrent == Init /\ [][NextCacheConcurrent]_vars

(***************************************************************************)
(* History store: star_output and unstar_output                            *)
(***************************************************************************)
\* "Starred Output #"
StarredOutputPrefix ==
    <<83, 116, 97, 114, 114, 101, 100, 32, 79, 117, 116, 112, 117, 116, 32, 35>>

\* str(n)
RECURSIVE Decimal(_)
Decimal(n) ==
    IF n < 10 THEN <<48 + n>> ELSE Decimal(n \div 10) \o <<48 + (n % 10)>>

\* custom_name or f"Starred Output #{len(starred_outputs) + 1}"
StarredName(custom_name, starred) ==
    IF custom_name # EmptyText THEN custom_name
    ELSE StarredOutputPrefix \o Decimal(Len(starred) + 1)

\* star_output's test against the latest starred entry only
AlreadyStarredLatest(timestamp, starred) ==
    starred # <<>> /\ starred[Len(starred)].timestamp = timestamp

\* star_output's test with the timestamps never compared
AlreadyStarredNever(timestamp, starred) == FALSE

\* any(s["timestamp"] == log_entry["timestamp"] for s in starred_outputs)
AlreadyStarred(timestamp, starred) ==
    \E i \in DOMAIN starred : starred[i].timestamp = timestamp

\* l.pop(index), index counted from 0
Pop(l, index) == SubSeq(l, 1, index) \o SubSeq(l, index + 2, Len(l))

\* the timestamps and the names handed to the history store
Timestamps == {1, 2}

CustomNames == {EmptyText, <<110>>}

SaveOutputLog(pattern_name, timestamp, io) ==
    /\ Len(output_logs) < MaxLogs
    /\ save_output_log(pattern_name, <<97, 98>>, PatternText(pattern_name), timestamp, io)
    /\ calc' = [fn |-> "save_output_log", arg |-> timestamp, result |-> FALSE,
                done |-> TRUE, io |-> io, changed |-> TRUE]
    /\ UNCHANGED <<config, input_content, clock, execVars, run, cacheVars, writers, patternVars>>

star_output(log_index, custom_name, io) ==
    LET in_range == 0 <= log_index /\ log_index < Len(output_logs)
        log_entry == [output_logs[log_index + 1] EXCEPT
                         !.is_starred = TRUE,
                         !.custom_name = StarredName(custom_name, starred_outputs)]
        stars == in_range /\ ~AlreadyStarred(log_entry.timestamp, starred_outputs)
    IN  /\ IF stars
           THEN /\ starred_outputs' = Append(starred_outputs, log_entry)
                /\ output_logs_file' = SavedLogsFile(output_logs, io)
                /\ starred_outputs_file' = SavedStarredFile(starred_outputs', io)
           ELSE UNCHANGED <<starred_outputs, output_logs_file, starred_outputs_file>>
        /\ calc' = [fn |-> "star_output", arg |-> log_index, result |-> stars,
                    done |-> TRUE, io |-> io, changed |-> stars]
        /\ UNCHANGED <<config, input_content, output_logs, clock, execVars, run,
                       cacheVars, writers, patternVars>>

unstar_output(log_index, io) ==
    LET in_range == 0 <= log_index /\ log_index < Len(starred_outputs)
    IN  /\ IF in_range
           THEN /\ starred_outputs' = Pop(starred_outputs, log_index)
                /\ output_logs_file' = SavedLogsFile(output_logs, io)
                /\ starred_outputs_file' = SavedStarredFile(starred_outputs', io)
           ELSE UNCHANGED <<starred_outputs, output_logs_file, starred_outputs_file>>
        /\ calc' = [fn |-> "unstar_output", arg |-> log_index, result |-> in_range,
                    done |-> TRUE, io |-> io, changed |-> in_range]
        /\ UNCHANGED <<config, input_content, output_logs, clock, execVars, run,
                       cacheVars, writers, patternVars>>

\* a session that starts with no saved outputs
InitHistory ==
    /\ Init
    /\ output_logs = <<>>

NextHistory ==
    \/ \E pattern_name \in {"A"}, timestamp \in Timestamps, io \in IoOutcomes :
          SaveOutputLog(pattern_name, timestamp, io)
    \/ \E log_index \in -1..MaxLogs, custom_name \in CustomNames, io \in IoOutcomes :
          star_output(log_index, custom_name, io)
    \/ \E log_index \in -1..MaxLogs, io \in IoOutcomes : unstar_output(log_index, io)

SpecHistory == InitHistory /\ [][NextHistory]_vars

(***************************************************************************)
(* load_saved_outputs, as every script run after the first calls it        *)
(***************************************************************************)
\* what happens to one file: it is not there, it is read and decoded, it
\* does not decode, it may not be opened
ReadOutcomes == {"absent", "ok", "undecodable", "denied"}

\* the exception the try block of load_saved_outputs raises, if any; the
\* starred file is reached only when the log file raised nothing
LoadRaises(logs_read, starred_read) ==
    IF logs_read = "undecodable" THEN "JSONDecodeError"
    ELSE IF logs_read = "denied" THEN "PermissionError"
    ELSE IF starred_read = "undecodable" THEN "JSONDecodeError"
    ELSE IF starred_read = "denied" THEN "PermissionError"
    ELSE "none"

\* LoadedLogs that keeps the log it has read when the starred file fails
LoadedLogsKept(logs_read, starred_read) ==
    IF logs_read = "undecodable" THEN <<>>
    ELSE IF logs_read = "ok" THEN output_logs_file
    ELSE output_logs

\* output_logs after load_saved_outputs
LoadedLogs(logs_read, starred_read) ==
    IF LoadRaises(logs_read, starred_read) = "JSONDecodeError" THEN <<>>
    ELSE IF logs_read = "ok" THEN output_logs_file
    ELSE output_logs

\* starred_outputs after load_saved_outputs
LoadedStarred(logs_read, starred_read) ==
    IF LoadRaises(logs_read, starred_read) = "JSONDecodeError" THEN <<>>
    ELSE IF LoadRaises(logs_read, starred_read) = "none" /\ starred_read = "ok"
    THEN starred_outputs_file
    ELSE starred_outputs

\* main, on a rerun: initialize_session_state keeps the keys the session has
\* and calls load_saved_outputs
load_saved_outputs(logs_read, starred_read) ==
    /\ output_logs' = LoadedLogs(logs_read, starred_read)
    /\ starred_outputs' = LoadedStarred(logs_read, starred_read)
    /\ calc' = [fn |-> "load_saved_outputs",
                arg |-> [logs_read |-> logs_read, starred_read |-> starred_read],
                result |-> LoadRaises(logs_read, starred_read),
                done |-> TRUE, io |-> "ok", changed |-> FALSE]
    /\ UNCHANGED <<config, input_content, output_logs_file, starred_outputs_file,
                   clock, execVars, run, cacheVars, writers, patternVars>>

\* a session after its first script run: later runs reload, log and star
NextReload ==
    \/ \E logs_read \in ReadOutcomes, starred_read \in ReadOutcomes :
          load_saved_outputs(logs_read, starred_read)
    \/ \E timestamp \in Timestamps, io \in IoOutcomes :
          SaveOutputLog("A", timestamp, io)
    \/ \E log_index \in 0..(MaxLogs - 1) : star_output(log_index, EmptyText, "ok")

SpecReload == Init /\ [][NextReload]_vars

(***************************************************************************)
(* An executor call followed by starring of its outputs                    *)
(***************************************************************************)
\* the star button of a log entry, once the run is over
StarAfterRun(log_index) ==
    /\ pc = "done"
    /\ star_output(log_index, EmptyText, "ok")

NextStarRun ==
    \/ EnterInputText(<<97, 98>>)
    \/ update_provider_selection("OpenAI")
    \/ SelectModel("gpt-4")
    \/ \E patterns_to_run \in PatternLists, chain_mode \in BOOLEAN :
          ExecutePatternsCall(patterns_to_run, chain_mode, None)
    \/ ExecutePatternsStage
    \/ ExecutePatternsReturn
    \/ \E patterns_sequence \in PatternLists :
          ExecutePatternChainCall(patterns_sequence, <<97, 98>>)
    \/ ExecutePatternChainStage
    \/ ExecutePatternChainReturn
    \/ \E log_index \in 0..MaxPatterns : StarAfterRun(log_index)

SpecStarRun == Init /\ [][NextStarRun]_vars

(***************************************************************************)
(* Two sessions on one outputs directory                                   *)
(***************************************************************************)
\* initialize_session_state at the start of a script run: load_saved_outputs
LoadSavedOutputs(w) ==
    /\ writers' = [writers EXCEPT ![w] =
          [@ EXCEPT !.loaded = TRUE,
                    !.output_logs = output_logs_file,
                    !.starred_outputs = starred_outputs_file]]
    /\ UNCHANGED <<sessionVars, execVars, run, cacheVars, calc, patternVars>>

\* save_output_log in session w: append to the session's list, then save_outputs
WriterSaveOutputLog(w, pattern_name) ==
    /\ writers[w].loaded
    /\ Len(writers[w].appended) < MaxAppends
    /\ LET log_entry == LogEntry(pattern_name, <<119, 48 + w>>,
                                 PatternText(pattern_name), clock)
           logs == Append(writers[w].output_logs, log_entry)
       IN  /\ writers' = [writers EXCEPT ![w] =
                 [@ EXCEPT !.output_logs = logs,
                           !.appended = Append(@, log_entry)]]
           /\ output_logs_file' = logs
           /\ starred_outputs_file' = writers[w].starred_outputs
    /\ UNCHANGED <<config, input_content, output_logs, starred_outputs, clock,
                   execVars, run, cacheVars, calc, patternVars>>

NextWriters ==
    \/ \E w \in Writers : LoadSavedOutputs(w)
    \/ \E w \in Writers, pattern_name \in {"A", "B"} :
          WriterSaveOutputLog(w, pattern_name)

SpecWriters == Init /\ [][NextWriters]_vars

(***************************************************************************)
(* match_patterns.  Scores are counted in half points, so that the 0.5 of  *)
(* an extract word is a whole number: 10 points are 20 half points.        *)
(***************************************************************************)
\* str.lower() on the letters A-Z
Lower(t) == [i \in DOMAIN t |-> IF t[i] \in 65..90 THEN t[i] + 32 ELSE t[i]]

\* needle in hay
Contains(needle, hay) ==
    \E i \in 0..(Len(hay) - Len(needle)) : SubSeq(hay, i + 1, i + Len(needle)) = needle

\* the length of the first word of a text that starts with one
RECURSIVE WordLen(_)
WordLen(t) ==
    IF t = <<>> \/ IsSpaceChar(Head(t)) THEN 0 ELSE 1 + WordLen(Tail(t))

\* str.split()
RECURSIVE Split(_)
Split(t) ==
    LET rest == LStrip(t)
        n == WordLen(rest)
    IN  IF rest = <<>> THEN <<>>
        ELSE <<SubSeq(rest, 1, n)>> \o Split(SubSeq(rest, n + 1, Len(rest)))

\* the sum of a sequence of numbers
RECURSIVE Sum(_)
Sum(numbers) == IF numbers = <<>> THEN 0 ELSE Head(numbers) + Sum(Tail(numbers))

\* the members of a set in some order, each once: iterating set(query.split())
RECURSIVE Listed(_)
Listed(set) ==
    IF set = {} THEN <<>>
    ELSE LET x == CHOOSE y \in set : TRUE IN <<x>> \o Listed(set \ {x})

\* pattern_extracts.get(key, "")
Get(pattern_extracts, key) ==
    IF \E e \in pattern_extracts : e[1] = key
    THEN (CHOOSE e \in pattern_extracts : e[1] = key)[2]
    ELSE EmptyText

\* lines 441-453: the weights of the whole query
QueryPoints(query, pattern_name, description, tags, extract_text) ==
    (IF Contains(query, pattern_name)
     THEN 20 + (IF \/ query = pattern_name
                   \/ Contains(<<32>> \o query \o <<32>>, <<32>> \o pattern_name \o <<32>>)
                THEN 10 ELSE 0)
     ELSE 0)
    + (IF Contains(query, description) THEN 10 ELSE 0)
    + Sum([i \in DOMAIN tags |->
             IF Contains(query, tags[i])
             THEN 6 + (IF query = tags[i] THEN 4 ELSE 0)
             ELSE 0])
    + (IF extract_text # EmptyText /\ Contains(query, extract_text) THEN 4 ELSE 0)

\* lines 457-465: the weights of one query word
WordPoints(word, pattern_name, description, tags, extract_text) ==
    IF Len(word) > 3
    THEN (IF Contains(word, pattern_name) THEN 4 ELSE 0)
         + (IF Contains(word, description) THEN 2 ELSE 0)
         + (IF \E i \in DOMAIN tags : Contains(word, tags[i]) THEN 2 ELSE 0)
         + (IF extract_text # EmptyText /\ Contains(word, extract_text) THEN 1 ELSE 0)
    ELSE 0

\* the weights summed for a lowercased query and the lowercased texts of a pattern
Points(query, pattern_name, description, tags, extract_text) ==
    LET query_words == Listed({Split(query)[i] : i \in DOMAIN Split(query)})
    IN  QueryPoints(query, pattern_name, description, tags, extract_text)
        + Sum([i \in DOMAIN query_words |->
                 WordPoints(query_words[i], pattern_name, description, tags,
                            extract_text)])

\* lines 435-465: the score of one pattern, in half points
Score(query, pattern, pattern_extracts, use_extracts) ==
    LET pattern_name == Lower(pattern.patternName)
        description == Lower(pattern.description)
        tags == [i \in DOMAIN pattern.tags |-> Lower(pattern.tags[i])]
        extract_text == IF use_extracts
                        THEN Lower(Get(pattern_extracts, pattern_name))
                        ELSE EmptyText
    IN  Points(Lower(query), pattern_name, description, tags, extract_text)

\* InsertMatch that puts a match before the matches of equal score
InsertMatchBeforeTies(sorted, match) ==
    LET ahead == {i \in DOMAIN sorted : sorted[i].score > match.score}
        n == Cardinality(ahead)
    IN  SubSeq(sorted, 1, n) \o <<match>> \o SubSeq(sorted, n + 1, Len(sorted))

\* a match takes its place behind the matches of greater or equal score
InsertMatch(sorted, match) ==
    LET ahead == {i \in DOMAIN sorted : sorted[i].score >= match.score}
        n == Cardinality(ahead)
    IN  SubSeq(sorted, 1, n) \o <<match>> \o SubSeq(sorted, n + 1, Len(sorted))

\* matches.sort(key=lambda x: x["score"], reverse=True): stable
RECURSIVE SortMatches(_)
SortMatches(matches) ==
    IF matches = <<>> THEN <<>>
    ELSE InsertMatch(SortMatches(SubSeq(matches, 1, Len(matches) - 1)),
                     matches[Len(matches)])

\* lines 434-468: the matches in catalog order
RECURSIVE Matches(_, _, _, _)
Matches(query, metadata, pattern_extracts, use_extracts) ==
    IF metadata = <<>> THEN <<>>
    ELSE LET pattern == Head(metadata)
             score == Score(query, pattern, pattern_extracts, use_extracts)
         IN  (IF score > 0 THEN <<[pattern |-> pattern, score |-> score]>> ELSE <<>>)
             \o Matches(query, Tail(metadata), pattern_extracts, use_extracts)

match_patterns(query, metadata, pattern_extracts, use_extracts) ==
    IF query = EmptyText \/ metadata = <<>> THEN <<>>
    ELSE LET matches == SortMatches(Matches(query, metadata,
                                            IF use_extracts THEN pattern_extracts ELSE {},
                                            use_extracts))
         IN  [i \in DOMAIN matches |-> matches[i].pattern]

\* the scores of the loop at lines 434-468, one per catalog entry
Scores(query, metadata, pattern_extracts, use_extracts) ==
    IF query = EmptyText \/ metadata = <<>> THEN <<>>
    ELSE [i \in DOMAIN metadata |->
            Score(query, metadata[i],
                  IF use_extracts THEN pattern_extracts ELSE {}, use_extracts)]

Git == <<103, 105, 116>>

Diff == <<100, 105, 102, 102>>

SummarizeGitDiff ==
    [patternName |-> <<115, 117, 109, 109, 97, 114, 105, 122, 101, 95, 103, 105, 116, 95, 100, 105, 102, 102>>,
     description |-> <<115, 117, 109, 109, 97, 114, 105, 122, 101, 115, 32, 97, 32, 103, 105, 116, 32, 100, 105, 102, 102>>,
     tags |-> <<Git, <<118, 99, 115>>>>]

\* the descriptors of the catalogs: the example of the specification, a name
\* with a capital letter, a name with spaces, and the same name in small letters
Descriptors ==
    {SummarizeGitDiff,
     [patternName |-> <<71, 105, 116>>, description |-> EmptyText, tags |-> <<>>],
     [patternName |-> <<97, 32, 103, 105, 116, 32, 98>>, description |-> Diff,
      tags |-> <<<<103, 105, 116, 100, 105, 102, 102>>, Git>>],
     [patternName |-> Git, description |-> EmptyText, tags |-> <<>>]}

Catalogs == UNION {[1..n -> Descriptors] : n \in 0..MaxCatalog}

\* "", "git", "GIT", "diff", "git diff", "diff diff", "tool"
Queries ==
    {EmptyText, Git, <<71, 73, 84>>, Diff, Git \o <<32>> \o Diff, Diff \o <<32>> \o Diff,
     <<116, 111, 111, 108>>}

\* what load_pattern_extracts returns: nothing, or "Shows DIFF" for
\* summarize_git_diff and "git tool" for Git
Extracts ==
    {{}, {<<SummarizeGitDiff.patternName, <<83, 104, 111, 119, 115, 32, 68, 73, 70, 70>>>>,
          <<<<71, 105, 116>>, <<103, 105, 116, 32, 116, 111, 111, 108>>>>}}

MatchArgs ==
    [query : Queries, metadata : Catalogs, pattern_extracts : Extracts,
     use_extracts : BOOLEAN]

MatchPatterns ==
    Apply("match_patterns",
          [scores |-> Scores(calc.arg.query, calc.arg.metadata,
                             calc.arg.pattern_extracts, calc.arg.use_extracts),
           patterns |-> match_patterns(calc.arg.query, calc.arg.metadata,
                                       calc.arg.pattern_extracts,
                                       calc.arg.use_extracts)])

SpecMatch == InitCalc("match_patterns", MatchArgs) /\ [][MatchPatterns]_vars

(***************************************************************************)
(* sanitize_input_content, applied once and twice                          *)
(***************************************************************************)
\* NUL, SOH, TAB, LF, US, space, "!", "a", NBSP
TextAlphabet == {0, 1, 9, 10, 31, 32, 33, 97, 160}

\* every text of at most MaxTextLen characters
Texts == UNION {[1..n -> TextAlphabet] : n \in 0..MaxTextLen}

SanitizeInputContent ==
    Apply("sanitize_input_content",
          [once |-> sanitize_input_content(calc.arg),
           twice |-> sanitize_input_content(sanitize_input_content(calc.arg))])

SpecSanitize ==
    InitCalc("sanitize_input_content", Texts) /\ [][SanitizeInputContent]_vars

\* lines 834-840 of execute_patterns: validate, then sanitize what was accepted
GuardInput ==
    Apply("guard_input",
          [is_valid |-> validate_input_content(calc.arg),
           sanitized_input |-> sanitize_input_content(calc.arg),
           sanitized_error |-> ValidationError(sanitize_input_content(calc.arg))])

SpecGuard == InitCalc("guard_input", Texts) /\ [][GuardInput]_vars

(***************************************************************************)
(* Vocabulary of the properties                                            *)
(***************************************************************************)
\* the call has returned from fn
Done(fn) == pc = "done" /\ returned.fn = fn

InChainMode ==
    \/ frame.fn = "execute_pattern_chain"
    \/ frame.fn = "execute_patterns" /\ frame.chain_mode

\* an engine process that exited non-zero or could not be run
HardFailed(c) == c.outcome.kind \in {"nonzero", "exception"}

\* an engine process that exited 0 and printed something
Succeeded(c) == c.outcome.kind = "ok" /\ Strip(c.outcome.stdout) # EmptyText

\* an engine process that exited 0 and printed nothing but whitespace
EmptyOutput(c) == c.outcome.kind = "ok" /\ Strip(c.outcome.stdout) = EmptyText

\* the patterns of a sequence of records, in order
PatternsOf(records) == [i \in 1..Len(records) |-> records[i].pattern]

\* no provider or no model is selected
NoProviderOrModel == Falsy(config.vendor) \/ Falsy(config.model)

\* the input of the running execute_patterns call
CallInput == IF Truthy(frame.initial_input) THEN frame.initial_input ELSE input_content

\* the positions of the engine calls that succeeded
SucceededAt == {i \in 1..Len(engine_calls) : Succeeded(engine_calls[i])}

LastOf(S) == CHOOSE i \in S : \A j \in S : j <= i

\* the text a chain starts from: what execute_patterns carries forward after
\* its checks, the argument of execute_pattern_chain
ChainStart ==
    IF frame.fn = "execute_pattern_chain" THEN frame.initial_input
    ELSE sanitize_input_content(CallInput)

\* the log entries appended since the call began
NewLogs == SubSeq(output_logs, Len(logs_at_call) + 1, Len(output_logs))

\* the positions in NewLogs of the entries that record engine call i
EntriesOf(i) ==
    {k \in DOMAIN NewLogs :
        /\ NewLogs[k].pattern_name = engine_calls[i].pattern
        /\ NewLogs[k].input = engine_calls[i].input
        /\ NewLogs[k].output = Strip(engine_calls[i].outcome.stdout)}

(***************************************************************************)
(* C1 (stated as the specification has it; the code breaks it).            *)
(* When a stage of execute_pattern_chain fails hard, the returned stages   *)
(* hold one entry per attempted stage, in order, the last being the failed *)
(* stage with success = false and its error set.                           *)
(***************************************************************************)
C1_FailedStageIsRecorded ==
    (/\ Done("execute_pattern_chain")
     /\ engine_calls # <<>>
     /\ HardFailed(engine_calls[Len(engine_calls)]))
    => LET stages == returned.chain_results.stages
       IN  /\ PatternsOf(stages) = PatternsOf(engine_calls)
           /\ ~stages[Len(stages)].success
           /\ stages[Len(stages)].error # None

(***************************************************************************)
(* C2.  In chain mode a hard failure ends the call: it is the last engine  *)
(* process of the call, and no later pattern is invoked.                   *)
(***************************************************************************)
C2_ChainStopsAtHardFailure ==
    InChainMode =>
        \A i \in 1..Len(engine_calls) :
            HardFailed(engine_calls[i]) => i = Len(engine_calls) /\ pc = "done"

\* B failed hard in a chain of A, B, C: C was never invoked
C2_Witness ==
    /\ Done("execute_patterns")
    /\ frame.chain_mode
    /\ frame.patterns = <<"A", "B", "C">>
    /\ Len(engine_calls) = 2
    /\ Succeeded(engine_calls[1])
    /\ HardFailed(engine_calls[2])

(***************************************************************************)
(* C3.  In non-chain mode, once the preconditions pass, execute_patterns   *)
(* invokes every pattern once, in order, whatever the earlier stages did,  *)
(* and returns one record per pattern in that order after the header.      *)
(***************************************************************************)
C3_IndependentModeNeverHalts ==
    (/\ frame.fn = "execute_patterns"
     /\ ~frame.chain_mode
     /\ ~NoProviderOrModel
     /\ validate_input_content(CallInput))
    => /\ PatternsOf(engine_calls) = SubSeq(frame.patterns, 1, Len(engine_calls))
       /\ pc = "done" =>
            /\ PatternsOf(engine_calls) = frame.patterns
            /\ Len(returned.all_outputs) = Len(frame.patterns) + 1
            /\ PatternsOf(Tail(returned.all_outputs)) = frame.patterns
            /\ \A i \in 1..Len(engine_calls) :
                 returned.all_outputs[i + 1].kind =
                    IF Succeeded(engine_calls[i]) THEN "output"
                    ELSE IF EmptyOutput(engine_calls[i]) THEN "warning"
                    ELSE "error"

\* A failed hard, B succeeded, both records are returned
C3_Witness ==
    /\ Done("execute_patterns")
    /\ ~frame.chain_mode
    /\ frame.patterns = <<"A", "B">>
    /\ Len(engine_calls) = 2
    /\ HardFailed(engine_calls[1])
    /\ Succeeded(engine_calls[2])
    /\ PatternsOf(Tail(returned.all_outputs)) = <<"A", "B">>
    /\ returned.all_outputs[2].kind = "error"
    /\ returned.all_outputs[3].kind = "output"

(***************************************************************************)
(* C4.  In chain mode a stage that exits 0 with empty output is recorded   *)
(* with the no-output warning (execute_patterns) or error                  *)
(* (execute_pattern_chain), and the next pattern is still invoked.         *)
(***************************************************************************)
C4_EmptyOutputIsNotFatal ==
    InChainMode =>
        \A i \in 1..Len(engine_calls) :
            EmptyOutput(engine_calls[i]) =>
                /\ IF frame.fn = "execute_patterns"
                   THEN frame.all_outputs[i + 1] = OutputRecord("warning", frame.patterns[i], EmptyText)
                   ELSE /\ ~frame.stages[i].success
                        /\ frame.stages[i].pattern = frame.patterns[i]
                        /\ frame.stages[i].error = NoOutputError
                /\ (pc = "done" /\ i < Len(frame.patterns)) =>
                        /\ Len(engine_calls) > i
                        /\ engine_calls[i + 1].pattern = frame.patterns[i + 1]

\* A printed nothing, B was invoked after it, with the input A had
C4_Witness ==
    /\ Done("execute_patterns")
    /\ frame.chain_mode
    /\ frame.patterns = <<"A", "B">>
    /\ Len(engine_calls) = 2
    /\ EmptyOutput(engine_calls[1])
    /\ engine_calls[2].pattern = "B"
    /\ returned.all_outputs[2].kind = "warning"

(***************************************************************************)
(* C5.  When execute_pattern_chain returns, metadata.success is true iff   *)
(* some stage succeeded, and final_output is the output of the last stage  *)
(* that succeeded, None when none did.                                     *)
(***************************************************************************)
C5_FinalOutputIsLastSuccess ==
    Done("execute_pattern_chain") =>
        /\ returned.chain_results.metadata.success = (SucceededAt # {})
        /\ returned.chain_results.final_output =
              IF SucceededAt # {}
              THEN Strip(engine_calls[LastOf(SucceededAt)].outcome.stdout)
              ELSE None

\* A and B succeeded, C failed hard: final_output is B's output
C5_Witness ==
    /\ Done("execute_pattern_chain")
    /\ Len(engine_calls) = 3
    /\ Succeeded(engine_calls[1])
    /\ Succeeded(engine_calls[2])
    /\ HardFailed(engine_calls[3])
    /\ returned.chain_results.metadata.success
    /\ returned.chain_results.final_output = <<66>>

C7_ChainChecksPreconditions ==
    (/\ frame.fn = "execute_pattern_chain"
     /\ NoProviderOrModel \/ ~validate_input_content(frame.initial_input))
    => engine_calls = <<>>

(***************************************************************************)
(* C8 (stated as the specification has it; the code breaks it).            *)
(* In execute_patterns the text piped to the engine by the first stage in  *)
(* chain mode, and by every stage in non-chain mode, is                    *)
(* sanitize_input_content of the call's input.                             *)
(***************************************************************************)
C8_EngineGetsSanitizedInput ==
    frame.fn = "execute_patterns" =>
        \A i \in 1..Len(engine_calls) :
            (~frame.chain_mode \/ i = 1) =>
                engine_calls[i].input = sanitize_input_content(CallInput)

(***************************************************************************)
(* C9 (stated as the specification has it; the code breaks it).            *)
(* A stage goes through the retrying runner: when the engine command of a  *)
(* stage fails once and a second run of it would exit 0, the command is    *)
(* run again, so the stage is not marked failed on that first failure.     *)
(***************************************************************************)
C9_StagesAreRetried ==
    (pc = "done" /\ frame.fn # "none") =>
        \A i \in 1..Len(engine_calls) :
            (engine_calls[i].outcome.kind = "nonzero" /\ engine_calls[i].outcome.retry_ok)
            => /\ i < Len(engine_calls)
               /\ engine_calls[i + 1].pattern = engine_calls[i].pattern

(***************************************************************************)
(* C10.  safe_run_command makes at most MAX_RETRIES attempts with retry    *)
(* and exactly one without; it stops at the first attempt that exits 0 and *)
(* returns success; it returns failure only after every allowed attempt    *)
(* has failed.                                                             *)
(***************************************************************************)
C10_RetryPolicy ==
    LET n == Len(run.attempts)
        allowed == IF run.retry THEN MAX_RETRIES ELSE 1
    IN  /\ n <= allowed
        /\ \A i \in 1..n : run.attempts[i].kind = "ok" => i = n /\ run.pc = "done"
        /\ run.pc = "done" =>
             /\ n >= 1
             /\ run.result.success = (run.attempts[n].kind = "ok")
             /\ ~run.result.success => n = allowed
             /\ run.result.success => run.result.stdout = run.attempts[n].text

\* fail, fail, succeed returns success after three attempts
C10_Witness ==
    /\ run.pc = "done"
    /\ run.retry
    /\ Len(run.attempts) = 3
    /\ run.attempts[1].kind = "nonzero"
    /\ run.attempts[2].kind = "exception"
    /\ run.attempts[3].kind = "ok"
    /\ run.result.success

\* a command that always fails: failure after exactly three attempts
C10_WitnessAllFail ==
    /\ run.pc = "done"
    /\ run.retry
    /\ Len(run.attempts) = 3
    /\ \A i \in 1..3 : run.attempts[i].kind # "ok"
    /\ ~run.result.success


(***************************************************************************)
(* C11 (as stated: about one second of backoff over a call that always     *)
(* fails with retry enabled).                                              *)
(***************************************************************************)
C11_TotalBackoffIsOneSecond ==
    (/\ run.pc = "done"
     /\ run.retry
     /\ Len(run.attempts) = MAX_RETRIES
     /\ \A i \in 1..Len(run.attempts) : run.attempts[i].kind # "ok")
    => run.waited = 1

(***************************************************************************)
(* C11, amended.  safe_run_command sleeps RETRY_DELAY after every failed   *)
(* attempt that another attempt follows, and at no other time: never after *)
(* the final attempt, never when retry is false.  A call that always fails *)
(* with retry enabled has waited RETRY_DELAY * (MAX_RETRIES - 1) = 2       *)
(* seconds.                                                                *)
(***************************************************************************)
C11_BackoffBetweenAttempts ==
    LET n == Len(run.attempts)
        allowed == IF run.retry THEN MAX_RETRIES ELSE 1
    IN  /\ run.pc = "idle" => run.waited = 0
        \* in the loop every sleep so far is followed by an attempt
        /\ run.pc = "loop" => run.waited = RETRY_DELAY * n /\ n < allowed
        /\ run.pc = "done" => run.waited = RETRY_DELAY * (n - 1)
        /\ ~run.retry => run.waited = 0
        /\ (run.pc = "done" /\ run.retry /\ ~run.result.success)
              => run.waited = RETRY_DELAY * (MAX_RETRIES - 1)

\* three failed attempts, two sleeps
C11_Witness ==
    /\ run.pc = "done"
    /\ run.retry
    /\ Len(run.attempts) = MAX_RETRIES
    /\ \A i \in 1..Len(run.attempts) : run.attempts[i].kind # "ok"
    /\ run.waited = 2

(***************************************************************************)
(* C16 (stated as the specification has it; the code breaks it).           *)
(* For the listing 'Available models:', 'OpenAI', '[1] gpt-4',             *)
(* '[2] gpt-3.5', 'Anthropic', '<TAB>claude-3' the parsed catalog is       *)
(* {OpenAI: [gpt-4, gpt-3.5], Anthropic: [claude-3]}: the indented line is *)
(* a model of the current provider, not a provider.                        *)
(***************************************************************************)
C16_IndentedLineIsModel ==
    (calc.fn = "parse_models_output" /\ calc.done /\ calc.arg = ExampleListing)
    => AsDict(calc.result) = {<<OpenAI, <<Gpt4, Gpt35>>>>, <<Anthropic, <<Claude3>>>>}

(***************************************************************************)
(* C17.  sanitize_input_content is idempotent: sanitizing a sanitized text *)
(* changes nothing.                                                        *)
(***************************************************************************)
C17_SanitizeIdempotent ==
    (calc.fn = "sanitize_input_content" /\ calc.done)
    => calc.result.twice = calc.result.once

\* a text the first pass changes: NUL dropped, SOH and TAB turned to a space
C17_Witness ==
    /\ calc.fn = "sanitize_input_content"
    /\ calc.done
    /\ calc.arg = <<0, 97, 1>>
    /\ calc.result.once = <<97>>
    /\ calc.result.twice = <<97>>

(***************************************************************************)
(* C12.  Within 300 seconds of a successful fetch a call returns the       *)
(* stored catalog without invoking the runner; a call made 300 seconds or  *)
(* more after it invokes the listing again.                                *)
(***************************************************************************)
C12_CacheWithinTtl ==
    LET f == fetchers[1]
        within == /\ ~f.cached_at_call.is_none
                  /\ f.current_time - f.last_at_call < cache_timeout
    IN  /\ \A i, j \in DOMAIN listings :
              (i < j /\ listings[i].state = "ok")
              => listings[j].at - listings[i].at >= cache_timeout
        /\ (f.pc # "idle" /\ within) =>
              /\ f.pc = "done"
              /\ f.hit
              /\ f.providers = f.cached_at_call.providers
              /\ Len(listings) = f.listed
        /\ (f.pc # "idle" /\ ~within) =>
              /\ ~f.hit
              /\ Len(listings) = f.listed + 1
              /\ listings[Len(listings)].at = f.current_time

\* a second call 299 seconds after the fetch, answered from the cache
C12_Witness ==
    LET f == fetchers[1]
    IN  /\ f.pc = "done"
        /\ f.hit
        /\ f.current_time - f.last_at_call = cache_timeout - 1
        /\ Len(listings) = 1
        /\ listings[1].state = "ok"

\* a second call 300 seconds after the fetch, which lists the models again
C12_WitnessExpired ==
    LET f == fetchers[1]
    IN  /\ f.pc = "done"
        /\ ~f.hit
        /\ ~f.cached_at_call.is_none
        /\ f.current_time - f.last_at_call = cache_timeout
        /\ Len(listings) = 2

(***************************************************************************)
(* C13.  A failed listing returns the empty catalog and stores nothing:    *)
(* the cached catalog and the fetch time stay as the call found them, and  *)
(* a call made afterwards does not find a fresh cache.                     *)
(***************************************************************************)
C13_FailureIsNotCached ==
    LET f == fetchers[1]
    IN  (f.pc = "done" /\ f.failed) =>
           /\ f.providers = <<>>
           /\ cached_models = f.cached_at_call
           /\ last_model_fetch = f.last_at_call
           /\ ~CacheIsFresh(clock)

\* a failure with nothing cached, followed by a call that lists again
C13_Witness ==
    LET f == fetchers[1]
    IN  /\ f.pc = "done"
        /\ f.failed
        /\ cached_models.is_none
        /\ Len(listings) = 2
        /\ listings[1].state = "failed"
        /\ listings[2].state = "failed"

(***************************************************************************)
(* C14.  Concurrent callers never have two listings under way at once.     *)
(***************************************************************************)
C14_OneListingAtATime ==
    Cardinality({i \in DOMAIN listings : listings[i].state = "running"}) <= 1

(***************************************************************************)
(* C15.  No update of the shared log file is lost: every entry a session  *)
(* has appended is in the file.                                            *)
(***************************************************************************)
C15_NoLostUpdate ==
    \A w \in Writers : \A i \in DOMAIN writers[w].appended :
        \E k \in DOMAIN output_logs_file :
            output_logs_file[k] = writers[w].appended[i]

(***************************************************************************)
(* C20.  No two starred entries have the same timestamp.                   *)
(***************************************************************************)
C20_StarredTimestampsDistinct ==
    \A i, j \in DOMAIN starred_outputs :
        i # j => starred_outputs[i].timestamp # starred_outputs[j].timestamp

\* a second star_output on a log entry whose timestamp is starred already
C20_Witness ==
    /\ calc.fn = "star_output"
    /\ calc.arg >= 0
    /\ calc.arg < Len(output_logs)
    /\ ~calc.result
    /\ Len(starred_outputs) = 1
    /\ starred_outputs[1].timestamp = output_logs[calc.arg + 1].timestamp

(***************************************************************************)
(* C18.  match_patterns returns exactly the catalog entries of score       *)
(* greater than 0, by descending score, entries of equal score in catalog  *)
(* order; an empty query or an empty catalog gives the empty result.       *)
(***************************************************************************)
C18_RankedPositiveScores ==
    (calc.fn = "match_patterns" /\ calc.done) =>
        LET metadata == calc.arg.metadata
            scores == calc.result.scores
            patterns == calc.result.patterns
            positive == {i \in DOMAIN scores : scores[i] > 0}
        IN  /\ (calc.arg.query = EmptyText \/ metadata = <<>>) => patterns = <<>>
            /\ \E at \in [DOMAIN patterns -> DOMAIN metadata] :
                  /\ {at[k] : k \in DOMAIN patterns} = positive
                  /\ \A k \in DOMAIN patterns : patterns[k] = metadata[at[k]]
                  /\ \A k, l \in DOMAIN patterns :
                        k < l =>
                           \/ scores[at[k]] > scores[at[l]]
                           \/ scores[at[k]] = scores[at[l]] /\ at[k] < at[l]

\* query "git" on three entries: the last scores most and comes first, the
\* first two differ, score alike and keep their order
C18_Witness ==
    /\ calc.fn = "match_patterns"
    /\ calc.done
    /\ calc.arg.query = Git
    /\ Len(calc.arg.metadata) = 3
    /\ calc.arg.metadata[1] # calc.arg.metadata[2]
    /\ calc.result.scores[1] = calc.result.scores[2]
    /\ calc.result.scores[1] > 0
    /\ calc.result.scores[3] > calc.result.scores[1]
    /\ calc.result.patterns =
          <<calc.arg.metadata[3], calc.arg.metadata[1], calc.arg.metadata[2]>>

\* an entry of score 0 is left out
C18_WitnessExcluded ==
    /\ calc.fn = "match_patterns"
    /\ calc.done
    /\ calc.arg.query # EmptyText
    /\ Len(calc.arg.metadata) = 2
    /\ calc.result.scores[1] = 0
    /\ calc.result.scores[2] > 0
    /\ calc.result.patterns = <<calc.arg.metadata[2]>>

(***************************************************************************)
(* C19.  The score of a pattern is the sum of the stated weights over its  *)
(* name, its description, its tags and its extract; "git" against          *)
(* summarize_git_diff with no extracts scores 20 (40 half points).         *)
(***************************************************************************)
\* the stated weights, the extract being the one stored under the pattern's name
StatedScore(query, pattern, pattern_extracts) ==
    Points(Lower(query), Lower(pattern.patternName), Lower(pattern.description),
           [i \in DOMAIN pattern.tags |-> Lower(pattern.tags[i])],
           Lower(Get(pattern_extracts, pattern.patternName)))

C19_ScoreIsSumOfWeights ==
    (calc.fn = "match_patterns" /\ calc.done) =>
        \A i \in DOMAIN calc.result.scores :
            calc.result.scores[i] =
                StatedScore(calc.arg.query, calc.arg.metadata[i],
                            IF calc.arg.use_extracts THEN calc.arg.pattern_extracts
                            ELSE {})

\* the example of the specification
C19_ExampleScoresTwenty ==
    (/\ calc.fn = "match_patterns"
     /\ calc.done
     /\ calc.arg.query = Git
     /\ calc.arg.pattern_extracts = {})
    => \A i \in DOMAIN calc.result.scores :
          calc.arg.metadata[i] = SummarizeGitDiff => calc.result.scores[i] = 40

(***************************************************************************)
(* C21.  star_output returns False and changes nothing for an index out   *)
(* of bounds; for every index in bounds it returns True, and appends the   *)
(* starred copy unless the timestamp is starred already.                   *)
(***************************************************************************)
C21_StarReturnsTrueInBounds ==
    [][calc'.fn = "star_output" =>
          LET log_index == calc'.arg
              in_bounds == 0 <= log_index /\ log_index < Len(output_logs)
          IN  /\ ~in_bounds =>
                    /\ calc'.result = FALSE
                    /\ UNCHANGED <<output_logs, starred_outputs, output_logs_file,
                                   starred_outputs_file>>
              /\ in_bounds =>
                    /\ calc'.result = TRUE
                    /\ IF AlreadyStarred(output_logs[log_index + 1].timestamp,
                                         starred_outputs)
                       THEN UNCHANGED starred_outputs
                       ELSE /\ Len(starred_outputs') = Len(starred_outputs) + 1
                            /\ SubSeq(starred_outputs', 1, Len(starred_outputs))
                                  = starred_outputs]_vars

(***************************************************************************)
(* C22.  A history mutation that meets no I/O error is persisted when the  *)
(* call returns: both files hold what the session holds in memory.         *)
(***************************************************************************)
C22_MutationsArePersisted ==
    (/\ calc.fn \in {"save_output_log", "star_output", "unstar_output"}
     /\ calc.changed
     /\ calc.io = "ok")
    => /\ output_logs_file = output_logs
       /\ starred_outputs_file = starred_outputs

\* a starring of one of two log entries, saved without an I/O error
C22_Witness ==
    /\ calc.fn = "star_output"
    /\ calc.changed
    /\ calc.io = "ok"
    /\ Len(output_logs) = 2
    /\ Len(starred_outputs) = 1
    /\ output_logs_file = output_logs
    /\ starred_outputs_file = starred_outputs

(***************************************************************************)
(* C23.  When a file fails to decode, load_saved_outputs returns with both *)
(* collections empty.                                                      *)
(***************************************************************************)
C23_DecodeFailureResetsBoth ==
    (calc.fn = "load_saved_outputs" /\ calc.result = "JSONDecodeError")
    => /\ output_logs = <<>>
       /\ starred_outputs = <<>>

\* the log file is read, then the starred file does not decode
C23_Witness ==
    /\ calc.fn = "load_saved_outputs"
    /\ calc.arg.logs_read = "ok"
    /\ calc.arg.starred_read = "undecodable"
    /\ output_logs_file # <<>>
    /\ output_logs = <<>>
    /\ starred_outputs = <<>>

(***************************************************************************)
(* C24.  After startup no script run replaces the collections in memory    *)
(* with what the files hold.                                               *)
(***************************************************************************)
C24_ReloadOnlyAtStartup ==
    [][calc'.fn = "load_saved_outputs" => UNCHANGED <<output_logs, starred_outputs>>]_vars

(***************************************************************************)
(* C25.  In chain mode the patterns run in the given order, and each gets  *)
(* the output of the latest earlier stage that printed something, or the   *)
(* text the chain started from when there is none.                         *)
(***************************************************************************)
C25_ChainPipesLastOutput ==
    InChainMode =>
        \A i \in DOMAIN engine_calls :
            LET earlier == {j \in SucceededAt : j < i}
            IN  /\ engine_calls[i].pattern = frame.patterns[i]
                /\ engine_calls[i].input =
                      IF earlier = {} THEN ChainStart
                      ELSE Strip(engine_calls[LastOf(earlier)].outcome.stdout)

\* execute_patterns in chain mode: A prints, B prints nothing, C gets A's output
C25_Witness ==
    /\ Done("execute_patterns")
    /\ frame.chain_mode
    /\ Len(engine_calls) = 3
    /\ Succeeded(engine_calls[1])
    /\ EmptyOutput(engine_calls[2])
    /\ engine_calls[2].input = Strip(engine_calls[1].outcome.stdout)
    /\ engine_calls[3].input = Strip(engine_calls[1].outcome.stdout)

\* the same in execute_pattern_chain
C25_WitnessChain ==
    /\ Done("execute_pattern_chain")
    /\ Len(engine_calls) = 3
    /\ Succeeded(engine_calls[1])
    /\ EmptyOutput(engine_calls[2])
    /\ engine_calls[3].input = Strip(engine_calls[1].outcome.stdout)

(***************************************************************************)
(* C26.  Every stage that prints something appends exactly one log entry, *)
(* with its pattern, the input piped to it and its output, in both modes;  *)
(* the entries are in execution order.                                     *)
(***************************************************************************)
C26_EachOutputIsLogged ==
    /\ \A i \in SucceededAt : Cardinality(EntriesOf(i)) = 1
    /\ \A i, j \in SucceededAt :
          i < j => \A k \in EntriesOf(i), l \in EntriesOf(j) : k < l

\* two patterns run independently, both logged with the text of the input area
C26_Witness ==
    /\ Done("execute_patterns")
    /\ ~frame.chain_mode
    /\ SucceededAt = {1, 2}
    /\ Len(NewLogs) = 2
    /\ NewLogs[1].pattern_name = "A"
    /\ NewLogs[2].pattern_name = "B"
    /\ NewLogs[2].input = input_content

(***************************************************************************)
(* C27.  The log entries of one executor call all carry the timestamp     *)
(* taken at its start, so at most one of them is starred at a time:        *)
(* star_output on an entry whose timestamp is starred returns False and    *)
(* leaves starred_outputs as it is.                                        *)
(***************************************************************************)
C27_OneStarPerRun ==
    /\ [](\A k \in DOMAIN NewLogs : NewLogs[k].timestamp = frame.timestamp)
    /\ [](Cardinality({i \in DOMAIN starred_outputs :
                          starred_outputs[i].timestamp = frame.timestamp}) <= 1)
    /\ [][(/\ calc'.fn = "star_output"
           /\ calc'.arg < Len(output_logs)
           /\ AlreadyStarred(output_logs[calc'.arg + 1].timestamp, starred_outputs))
          => /\ calc'.result = FALSE
             /\ UNCHANGED starred_outputs]_vars

\* one output of a run of two is starred, and star_output on the other
\* returned False
C27_Witness ==
    /\ pc = "done"
    /\ Len(NewLogs) >= 2
    /\ Len(starred_outputs) = 1
    /\ starred_outputs[1].timestamp = frame.timestamp
    /\ calc.fn = "star_output"
    /\ calc.result = FALSE
    /\ calc.arg < Len(output_logs)
    /\ output_logs[calc.arg + 1].timestamp = frame.timestamp
    /\ output_logs[calc.arg + 1].pattern_name # starred_outputs[1].pattern_name

(***************************************************************************)
(* C28.  A text validate_input_content accepts is still accepted after     *)
(* sanitize_input_content.                                                 *)
(***************************************************************************)
C28_SanitizedStaysValid ==
    (calc.fn = "guard_input" /\ calc.done /\ calc.result.is_valid)
    => calc.result.sanitized_error = ""

(***************************************************************************)
(* C29.  A successful listing that parses to the empty catalog is cached:  *)
(* calls in the next 300 seconds return the empty catalog and list nothing.*)
(***************************************************************************)
C29_EmptyCatalogIsCached ==
    LET f == fetchers[1]
    IN  /\ (f.pc = "done" /\ ~f.hit /\ ~f.failed /\ f.providers = <<>>) =>
              /\ cached_models = [is_none |-> FALSE, providers |-> <<>>]
              /\ last_model_fetch = f.current_time
        /\ (/\ f.pc # "idle"
            /\ f.cached_at_call = [is_none |-> FALSE, providers |-> <<>>]
            /\ f.current_time - f.last_at_call < cache_timeout) =>
              /\ f.pc = "done"
              /\ f.hit
              /\ f.providers = <<>>
              /\ Len(listings) = f.listed

\* the empty catalog returned from the cache 299 seconds after the listing
C29_Witness ==
    LET f == fetchers[1]
    IN  /\ f.pc = "done"
        /\ f.hit
        /\ f.providers = <<>>
        /\ f.current_time - f.last_at_call = cache_timeout - 1
        /\ Len(listings) = 1
        /\ listings[1].state = "ok"

(***************************************************************************)
(* create_pattern                                                          *)
(***************************************************************************)
\* the pattern names the callers pass: the empty one, and the one followed
NewPatternNames == {"", "A"}

\* how a step that touches the file system or the engine ends
StepOutcomes == {"ok", "failed"}

\* the call ends: it returns (True, ...) or (False, ...)
Returns(c, success) ==
    [creators EXCEPT ![c].pc = "idle",
                     ![c].returned = IF success THEN "True" ELSE "False"]

\* shutil.rmtree(new_pattern_path), guarded by os.path.exists
RemovedIfExists == NoDirectory

\* the start of a call, up to its os.path.exists test: an empty name and a
\* path that is there both return failure with the file system untouched
CreatePatternCall(c, pattern_name, content) ==
    /\ creators[c].pc = "idle"
    /\ creators' = [creators EXCEPT ![c] =
           [pc |-> IF pattern_name = "" \/ pattern_path.exists
                   THEN "idle" ELSE "makedirs",
            pattern_name |-> pattern_name,
            content |-> content,
            existed |-> pattern_name # "" /\ pattern_path.exists,
            returned |-> IF pattern_name = "" \/ pattern_path.exists
                         THEN "False" ELSE "none"]]
    /\ UNCHANGED <<sessionVars, execVars, run, cacheVars, writers, calc,
                   pattern_path>>

\* os.makedirs(new_pattern_path): FileExistsError when the path is there by
\* now, OSError when the directory cannot be made; both reach the outer
\* handler
MakeDirs(c, outcome) ==
    /\ creators[c].pc = "makedirs"
    /\ IF pattern_path.exists \/ outcome = "failed"
       THEN /\ creators' = [creators EXCEPT ![c].pc = "outer_except"]
            /\ UNCHANGED pattern_path
       ELSE /\ pattern_path' = [exists |-> TRUE, made_by |-> c, system_md |-> 0]
            /\ creators' = [creators EXCEPT ![c].pc =
                   IF creators[c].content THEN "engine" ELSE "write"]
    /\ UNCHANGED <<sessionVars, execVars, run, cacheVars, writers, calc>>

\* the content branch up to structured_content: no provider or model, a
\* failed engine run and an empty output all reach an inner handler
StructureContent(c, outcome) ==
    /\ creators[c].pc = "engine"
    /\ creators' = [creators EXCEPT ![c].pc =
           IF outcome = "ok" THEN "write" ELSE "inner_except"]
    /\ UNCHANGED <<sessionVars, execVars, run, cacheVars, writers, calc,
                   pattern_path>>

\* open(system_file, "w") and f.write: needs the directory; a failure reaches
\* the inner handler in the content branch and the outer one otherwise
WriteSystemFile(c, outcome) ==
    /\ creators[c].pc = "write"
    /\ IF pattern_path.exists /\ outcome = "ok"
       THEN /\ pattern_path' = [pattern_path EXCEPT !.system_md = c]
            /\ creators' = [creators EXCEPT ![c].pc = "validate"]
       ELSE /\ creators' = [creators EXCEPT ![c].pc =
                   IF creators[c].content THEN "inner_except" ELSE "outer_except"]
            /\ UNCHANGED pattern_path
    /\ UNCHANGED <<sessionVars, execVars, run, cacheVars, writers, calc>>

\* validate_pattern: invalid only when system.md is missing or unreadable
validate_pattern(outcome) == pattern_path.system_md # 0 /\ outcome = "ok"

\* the validation and what follows it: the content branch raises ValueError
\* when the pattern is invalid, the other branch only warns; then the call
\* returns (True, "Pattern ... created successfully.")
ValidateAndReturn(c, outcome) ==
    /\ creators[c].pc = "validate"
    /\ creators' = IF creators[c].content /\ ~validate_pattern(outcome)
                   THEN [creators EXCEPT ![c].pc = "inner_except"]
                   ELSE Returns(c, TRUE)
    /\ UNCHANGED <<sessionVars, execVars, run, cacheVars, writers, calc,
                   pattern_path>>

\* the handlers of the content branch: remove the path if it is there, and
\* return failure
InnerExcept(c) ==
    /\ creators[c].pc = "inner_except"
    /\ pattern_path' = IF pattern_path.exists THEN RemovedIfExists ELSE pattern_path
    /\ creators' = Returns(c, FALSE)
    /\ UNCHANGED <<sessionVars, execVars, run, cacheVars, writers, calc>>

\* the outer handler: the same removal, whoever made the directory
OuterExcept(c) ==
    /\ creators[c].pc = "outer_except"
    /\ pattern_path' = IF pattern_path.exists THEN RemovedIfExists ELSE pattern_path
    /\ creators' = Returns(c, FALSE)
    /\ UNCHANGED <<sessionVars, execVars, run, cacheVars, writers, calc>>

NextPattern ==
    \/ \E c \in Creators, pattern_name \in NewPatternNames, content \in BOOLEAN :
          CreatePatternCall(c, pattern_name, content)
    \/ \E c \in Creators, outcome \in StepOutcomes : MakeDirs(c, outcome)
    \/ \E c \in Creators, outcome \in StepOutcomes : StructureContent(c, outcome)
    \/ \E c \in Creators, outcome \in StepOutcomes : WriteSystemFile(c, outcome)
    \/ \E c \in Creators, outcome \in StepOutcomes : ValidateAndReturn(c, outcome)
    \/ \E c \in Creators : InnerExcept(c)
    \/ \E c \in Creators : OuterExcept(c)

SpecPattern == Init /\ [][NextPattern]_vars

\* the step in which call c returns value; a call that returns at once does
\* so in the step that starts it
ReturnsNow(c, value) ==
    /\ creators'[c] # creators[c]
    /\ creators'[c].pc = "idle"
    /\ creators'[c].returned = value

\* C30, the failure half: a call for the followed name that returns failure
\* leaves no directory behind unless its os.path.exists test found one
FailureLeavesNothing(c) ==
    ReturnsNow(c, "False") /\ creators'[c].pattern_name # ""
        => (pattern_path'.exists => creators'[c].existed)

\* C30: a call whose os.path.exists test found the directory leaves it as
\* it was
ExistingIsUntouched(c) ==
    creators'[c] # creators[c] /\ creators'[c].existed
        => pattern_path' = pattern_path

\* C30, the success half: a call that returns success leaves the directory
\* and its system.md behind
SuccessLeavesAll(c) ==
    ReturnsNow(c, "True")
        => pattern_path'.exists /\ pattern_path'.system_md # 0

\* C30: create_pattern is all-or-nothing on the pattern directory, whatever
\* the interleaving of two calls for one name: a call that returns failure
\* leaves no directory unless one was there before it, a directory that was
\* there before it is neither removed nor modified, and a call that returns
\* success leaves the pattern it reports as created. Violated: a call that
\* passed the existence test before another call made the directory fails in
\* os.makedirs, and its handler removes the other call's directory, which
\* then returns success.
C30_CreatePatternAllOrNothing ==
    [][\A c \in Creators :
          /\ FailureLeavesNothing(c)
          /\ ExistingIsUntouched(c)
          /\ SuccessLeavesAll(c)]_vars

=============================================================================
